---- MODULE Spec2Model ----
(***************************************************************************)
(* A model of JPDB2Anki.py: the transport (send_post), the deck resolver   *)
(* (select_deck and its call in main), the vocabulary fetcher              *)
(* (get_deck_vocabulary, lookup_vocabulary), the filter engine             *)
(* (ask_mode_and_options, apply_filters) and the exporter (the sort in     *)
(* main, export_anki_csv).                                                 *)
(***************************************************************************)
EXTENDS Integers, Sequences, FiniteSets, TLC

(***************************************************************************)
(* Python values.  A value is a record tagged with its Python type, so     *)
(* that values of different types can be told apart.  A str is a sequence  *)
(* of one-character strings, so that strip() and int() work on it.         *)
(***************************************************************************)
PyNone == [t |-> "none", v |-> 0]
PyInt(n) == [t |-> "int", v |-> n]
PyBool(b) == [t |-> "bool", v |-> b]
PyStr(s) == [t |-> "str", v |-> s]
PyList(s) == [t |-> "list", v |-> s]

DigitChars == <<"0", "1", "2", "3", "4", "5", "6", "7", "8", "9">>

IsDigit(c) == \E d \in 1..10 : DigitChars[d] = c

DigitVal(c) == (CHOOSE d \in 1..10 : DigitChars[d] = c) - 1

RECURSIVE LStrip(_)
LStrip(s) == IF s # <<>> /\ Head(s) = " " THEN LStrip(Tail(s)) ELSE s

RECURSIVE RStrip(_)
RStrip(s) ==
    IF s # <<>> /\ s[Len(s)] = " " THEN RStrip(SubSeq(s, 1, Len(s) - 1)) ELSE s

\* str.strip(): leading and trailing blanks removed.
Strip(s) == RStrip(LStrip(s))

RECURSIVE DigitsValue(_)
DigitsValue(s) ==
    IF s = <<>> THEN 0
    ELSE DigitsValue(SubSeq(s, 1, Len(s) - 1)) * 10 + DigitVal(s[Len(s)])

AllDigits(s) == s # <<>> /\ \A k \in 1..Len(s) : IsDigit(s[k])

\* int(<str>): blanks stripped, an optional sign, then decimal digits;
\* anything else is a ValueError (ok = FALSE).
ParseInt(s) ==
    LET u == Strip(s)
        signed == u # <<>> /\ Head(u) \in {"-", "+"}
        body == IF signed THEN Tail(u) ELSE u
    IN  IF AllDigits(body)
        THEN [ok |-> TRUE,
              v |-> IF signed /\ Head(u) = "-" THEN 0 - DigitsValue(body)
                    ELSE DigitsValue(body)]
        ELSE [ok |-> FALSE, v |-> 0]

\* int(x) for a Python value: an int is itself, a bool is 0 or 1, a str is
\* parsed, None and a list raise TypeError (ok = FALSE).
ToInt(x) ==
    CASE x.t = "int" -> [ok |-> TRUE, v |-> x.v]
      [] x.t = "bool" -> [ok |-> TRUE, v |-> IF x.v THEN 1 ELSE 0]
      [] x.t = "str" -> ParseInt(x.v)
      [] OTHER -> [ok |-> FALSE, v |-> 0]

RECURSIVE NatChars(_)
NatChars(n) ==
    IF n < 10 THEN <<DigitChars[n + 1]>>
    ELSE NatChars(n \div 10) \o <<DigitChars[(n % 10) + 1]>>

\* str(x): the decimal digits of an int, a str as it is.
ToStr(x) ==
    CASE x.t = "str" -> x.v
      [] x.t = "int" -> IF x.v < 0 THEN <<"-">> \o NatChars(0 - x.v)
                        ELSE NatChars(x.v)
      [] x.t = "none" -> <<"N", "o", "n", "e">>
      [] OTHER -> <<"?">>

\* Python truthiness: None, 0, False, "" and [] are false.
Truthy(x) ==
    CASE x.t = "none" -> FALSE
      [] x.t = "int" -> x.v # 0
      [] x.t = "bool" -> x.v
      [] OTHER -> x.v # <<>>

VARIABLES
    PRESET,         \* the module-level PRESET_* values (lines 4-16)
    server,         \* what the remote service holds: decks, vocabulary, ...
    pc,             \* the statement main (or the function under test) is at
    exit_status,    \* the process exit status, -1 while running
    out,            \* the last message printed
    options,        \* ask_mode_and_options: options / main: opts
    decks,          \* select_deck: decks
    deck_id,        \* main: deck_id
    vocab_list,     \* main: vocab_list / lookup_vocabulary: entries
    occ_map,        \* lookup_vocabulary: occ_map
    lookup_pairs,   \* lookup_vocabulary: lookup_pairs
    i,              \* lookup_vocabulary: i, the offset of the current batch
    batch,          \* lookup_vocabulary: batch
    rows,           \* lookup_vocabulary: rows
    parsed,         \* lookup_vocabulary: parsed
    detailed,       \* main: detailed / apply_filters: parsed_vocab
    now_ts,         \* apply_filters: now_ts
    n_eval,         \* apply_filters: how many items the for loop has taken
    verdict,        \* apply_filters: how the last iteration of the loop ended
    state_list,     \* apply_filters: state_list
    filtered,       \* apply_filters: filtered / main: filtered
    csv,            \* the output file: whether it was opened, and its rows
    sp_pc,          \* send_post: "idle", "loop", "returned" or "raised"
    sp_max_retries, \* send_post: the max_retries argument
    sp_attempt,     \* send_post: attempt
    sp_log,         \* send_post: the responses of the requests issued so far
    sp_slept,       \* send_post: the time.sleep() calls made so far
    sp_ret          \* send_post: the value returned or the message raised

postVars == <<sp_pc, sp_max_retries, sp_attempt, sp_log, sp_slept, sp_ret>>

envVars == <<PRESET, server>>

deckVars == <<decks, deck_id>>

lookupVars == <<occ_map, lookup_pairs, i, batch, rows, parsed>>

filterVars == <<now_ts, n_eval, verdict, state_list, filtered>>

mainVars == <<pc, exit_status, out, options, vocab_list, detailed, csv>>

vars == <<envVars, mainVars, deckVars, lookupVars, filterVars, postVars>>

(***************************************************************************)
(* Strings the program compares against.                                   *)
(***************************************************************************)
S_1 == <<"1">>
S_2 == <<"2">>
S_basic == <<"b", "a", "s", "i", "c">>
S_advanced == <<"a", "d", "v", "a", "n", "c", "e", "d">>
S_y == <<"y">>
S_yes == <<"y", "e", "s">>
S_n == <<"n">>
S_no == <<"n", "o">>
S_suspended == <<"s", "u", "s", "p", "e", "n", "d", "e", "d">>
S_blacklisted == <<"b", "l", "a", "c", "k", "l", "i", "s", "t", "e", "d">>
S_banished == <<"b", "a", "n", "i", "s", "h", "e", "d">>
S_never_forget == <<"n", "e", "v", "e", "r", "-", "f", "o", "r", "g", "e", "t">>

\* str.lower() on the letters the prompts are answered with.
LowerChar(c) ==
    CASE c = "Y" -> "y"
      [] c = "N" -> "n"
      [] c = "E" -> "e"
      [] c = "S" -> "s"
      [] c = "O" -> "o"
      [] OTHER -> c

Lower(s) == [k \in 1..Len(s) |-> LowerChar(s[k])]

\* dict.get(key): None when the key is missing.
Get(d, key) == IF key \in DOMAIN d THEN d[key] ELSE PyNone

Max(a, b) == IF a >= b THEN a ELSE b

(***************************************************************************)
(* ask_mode_and_options                                                    *)
(***************************************************************************)
\* mode: from preset_mode when it is not empty, otherwise from the answer.
AskMode(preset_mode, ans) ==
    IF preset_mode # <<>>
    THEN LET pm == Strip(preset_mode)
         IN  IF pm \in {S_1, S_basic} THEN "basic"
             ELSE IF pm \in {S_2, S_advanced} THEN "advanced"
             ELSE "basic"
    ELSE IF Strip(ans) = S_2 THEN "advanced" ELSE "basic"

\* One pass of an integer prompt loop: a blank line gives the default, an
\* integer n gives max(0, n), anything else prompts again (ok = FALSE).
PromptInt(line, blank) ==
    LET v == Strip(line)
        n == ParseInt(v)
    IN  IF v = <<>> THEN [ok |-> TRUE, v |-> blank]
        ELSE IF n.ok THEN [ok |-> TRUE, v |-> PyInt(Max(0, n.v))]
        ELSE [ok |-> FALSE, v |-> PyNone]

\* One pass of a yes/no prompt loop.
PromptYesNo(line) ==
    LET v == Lower(Strip(line))
    IN  IF v = <<>> THEN [ok |-> TRUE, v |-> PyBool(FALSE)]
        ELSE IF v \in {S_y, S_yes} THEN [ok |-> TRUE, v |-> PyBool(TRUE)]
        ELSE IF v \in {S_n, S_no} THEN [ok |-> TRUE, v |-> PyBool(FALSE)]
        ELSE [ok |-> FALSE, v |-> PyNone]

\* options["min_occurrences"], options["max_results"]: the preset, or the
\* prompt when the preset is None.
AskCount(preset, line) ==
    IF preset = PyNone THEN PromptInt(line, PyInt(0))
    ELSE [ok |-> TRUE, v |-> preset]

\* options["max_days_until_due"], ["max_card_level"], ["max_frequency_rank"]:
\* the prompt when the preset is None, None when the preset is 0, otherwise
\* the preset as it is.
AskCeiling(preset, line) ==
    IF preset = PyNone THEN PromptInt(line, PyNone)
    ELSE IF preset = PyInt(0) THEN [ok |-> TRUE, v |-> PyNone]
    ELSE [ok |-> TRUE, v |-> preset]

\* options["include_banished"], ["include_never_forget"].
AskFlag(preset, line) ==
    IF preset = PyNone THEN PromptYesNo(line)
    ELSE [ok |-> TRUE, v |-> preset]

BasicOptions ==
    [mode |-> "basic",
     min_occurrences |-> PyInt(0),
     max_days_until_due |-> PyNone,
     max_card_level |-> PyNone,
     include_banished |-> PyBool(FALSE),
     include_never_forget |-> PyBool(FALSE),
     max_frequency_rank |-> PyNone,
     max_results |-> PyInt(0)]

\* The options ask_mode_and_options returns when the user answers the
\* prompts with the lines of a; ok = FALSE when an answer is not accepted
\* (the prompt is repeated).
ask_mode_and_options(preset_mode, P, a) ==
    LET mode == AskMode(preset_mode, a.mode)
        min_occ == AskCount(P.MIN_OCCURRENCES, a.min_occurrences)
        days == AskCeiling(P.MAX_DAYS_UNTIL_DUE, a.max_days_until_due)
        level == AskCeiling(P.MAX_CARD_LEVEL, a.max_card_level)
        ban == AskFlag(P.INCLUDE_BANISHED, a.include_banished)
        nf == AskFlag(P.INCLUDE_NEVER_FORGET, a.include_never_forget)
        freq == AskCeiling(P.MAX_FREQUENCY_RANK, a.max_frequency_rank)
        res == AskCount(P.MAX_RESULTS, a.max_results)
    IN  IF mode = "basic" THEN [ok |-> TRUE, options |-> BasicOptions]
        ELSE [ok |-> min_occ.ok /\ days.ok /\ level.ok /\ ban.ok /\ nf.ok
                     /\ freq.ok /\ res.ok,
              options |->
                [mode |-> "advanced",
                 min_occurrences |-> min_occ.v,
                 max_days_until_due |-> days.v,
                 max_card_level |-> level.v,
                 include_banished |-> ban.v,
                 include_never_forget |-> nf.v,
                 max_frequency_rank |-> freq.v,
                 max_results |-> res.v]]

(***************************************************************************)
(* apply_filters: the body of the for loop                                 *)
(***************************************************************************)
SECONDS_PER_DAY == 86400

\* int(x), None when x is None or int() raises.
IntOrNone(x) ==
    IF x = PyNone \/ ~ToInt(x).ok THEN PyNone ELSE PyInt(ToInt(x).v)

\* Rule 1: occ_val is not None and occ_val < min_occ.
RejectOccurrences(item, opts) ==
    LET occ_val == IntOrNone(Get(item, "occurrences"))
    IN  occ_val # PyNone /\ occ_val.v < opts.min_occurrences.v

\* Rule 2, with the > of the comparison against max_due_ts turned into >=.
RejectDueAtCeiling(item, opts, now) ==
    /\ opts.max_days_until_due # PyNone
    /\ LET due_at == Get(item, "due_at")
           max_due_ts == now + ToInt(opts.max_days_until_due).v * SECONDS_PER_DAY
       IN  IF due_at = PyNone THEN now >= max_due_ts
           ELSE IF ~ToInt(due_at).ok THEN TRUE
           ELSE ToInt(due_at).v >= max_due_ts

\* Rule 2: only when max_days is not None; a missing due_at counts as now,
\* one int() cannot read rejects, otherwise due_at_int > max_due_ts rejects.
RejectDue(item, opts, now) ==
    /\ opts.max_days_until_due # PyNone
    /\ LET due_at == Get(item, "due_at")
           max_due_ts == now + ToInt(opts.max_days_until_due).v * SECONDS_PER_DAY
       IN  IF due_at = PyNone THEN now > max_due_ts
           ELSE IF ~ToInt(due_at).ok THEN TRUE
           ELSE ToInt(due_at).v > max_due_ts

\* Rule 3: only when max_card_level is not None; cl_val None passes.
RejectCardLevel(item, opts) ==
    /\ opts.max_card_level # PyNone
    /\ LET cl_val == IntOrNone(Get(item, "card_level"))
       IN  cl_val # PyNone /\ cl_val.v > opts.max_card_level.v

\* state_list with the isinstance(states, str) branch dropped: only a list
\* gives tags.
StateListOnlyLists(item) ==
    LET got == Get(item, "card_state")
        states == IF Truthy(got) THEN got ELSE PyList(<<>>)
    IN  IF states.t = "list"
        THEN [k \in 1..Len(states.v) |-> ToStr(states.v[k])]
        ELSE <<>>

\* state_list: the str() of every element of a list, the string itself for
\* a str, nothing for any other value (and for a falsy one: "or []").
StateList(item) ==
    LET got == Get(item, "card_state")
        states == IF Truthy(got) THEN got ELSE PyList(<<>>)
    IN  IF states.t = "list"
        THEN [k \in 1..Len(states.v) |-> ToStr(states.v[k])]
        ELSE IF states.t = "str" THEN <<states.v>>
        ELSE <<>>

Contains(seq, x) == \E k \in 1..Len(seq) : seq[k] = x

\* Rule 4: the two state tests.
RejectState(item, opts) ==
    LET tags == StateList(item)
    IN  \/ /\ \E s \in {S_suspended, S_blacklisted, S_banished} :
                 Contains(tags, s)
           /\ ~Truthy(opts.include_banished)
        \/ /\ Contains(tags, S_never_forget)
           /\ ~Truthy(opts.include_never_forget)

\* Rule 5, with the > of the comparison against max_freq turned into >=.
RejectFrequencyAtCeiling(item, opts) ==
    /\ opts.max_frequency_rank # PyNone
    /\ LET freq_val == IntOrNone(Get(item, "frequency_rank"))
       IN  freq_val = PyNone \/ freq_val.v >= opts.max_frequency_rank.v

\* Rule 5: only when max_freq is not None; freq_val None rejects.
RejectFrequency(item, opts) ==
    /\ opts.max_frequency_rank # PyNone
    /\ LET freq_val == IntOrNone(Get(item, "frequency_rank"))
       IN  freq_val = PyNone \/ freq_val.v > opts.max_frequency_rank.v

\* The continue statement one iteration of the loop ends at, or "accept"
\* when it reaches filtered.append(item).
Verdict(item, opts, now) ==
    IF RejectOccurrences(item, opts) THEN "occurrences"
    ELSE IF RejectDue(item, opts, now) THEN "due"
    ELSE IF RejectCardLevel(item, opts) THEN "card_level"
    ELSE IF RejectState(item, opts) THEN "state"
    ELSE IF RejectFrequency(item, opts) THEN "frequency"
    ELSE "accept"

(***************************************************************************)
(* send_post                                                               *)
(***************************************************************************)
MaxRetriesArg == 3

backoff_base == 1

\* What requests.post can give: a RequestException, or a response with a
\* status code, a body (not JSON, a dict with "error_message", another
\* dict) and possibly a Retry-After header.
NetworkError == [exc |-> TRUE, status |-> 0, body |-> "notjson", retry_after |-> PyNone]

HttpResponse(status, body, ra) ==
    [exc |-> FALSE, status |-> status, body |-> body, retry_after |-> ra]

Responses ==
    {NetworkError}
    \cup {HttpResponse(200, b, PyNone) : b \in {"notjson", "dict", "dict_msg"}}
    \cup {HttpResponse(429, "notjson", ra) :
            ra \in {PyNone, PyStr(<<"2">>), PyStr(<<"s", "o", "o", "n">>)}}
    \cup {HttpResponse(s, b, PyNone) : s \in {403, 400, 500}, b \in {"dict", "dict_msg"}}

\* data = r.json(), None when the body is not JSON.
JsonOf(r) == IF r.body = "notjson" THEN "None" ELSE r.body

\* The message of the RuntimeError raised for a non-200, non-429 status.
ErrorMessage(r) ==
    CASE r.status = 403 ->
            IF r.body = "dict_msg" THEN "error_message"
            ELSE "Forbidden (403) - check API key"
      [] r.status = 400 ->
            IF r.body = "dict_msg" THEN "error_message" ELSE "Bad request (400)"
      [] OTHER ->
            IF r.body = "dict_msg" THEN "HTTP status: error_message"
            ELSE "HTTP status"

PostInit(mr) ==
    /\ sp_pc = "loop"
    /\ sp_max_retries = mr
    /\ sp_attempt = 0
    /\ sp_log = <<>>
    /\ sp_slept = <<>>
    /\ sp_ret = "None"

\* while attempt < max_retries: ... falls through to the final raise.
PostExhausted ==
    /\ sp_pc = "loop"
    /\ ~(sp_attempt < sp_max_retries)
    /\ sp_pc' = "raised"
    /\ sp_ret' = "Exceeded maximum retries"
    /\ UNCHANGED <<sp_max_retries, sp_attempt, sp_log, sp_slept>>

\* send_post with the status test for 429 widened to every status of 429 and
\* above: a 500 is waited out and retried instead of raised.
PostAttemptRetryServerError(r) ==
    /\ sp_pc = "loop"
    /\ sp_attempt < sp_max_retries
    /\ sp_attempt' = sp_attempt + 1
    /\ sp_log' = Append(sp_log, r)
    /\ UNCHANGED sp_max_retries
    /\ IF r.exc
       THEN IF sp_attempt' >= sp_max_retries
            THEN /\ sp_pc' = "raised"
                 /\ sp_ret' = "RequestException"
                 /\ UNCHANGED sp_slept
            ELSE /\ sp_pc' = "loop"
                 /\ sp_slept' = Append(sp_slept, backoff_base * sp_attempt')
                 /\ UNCHANGED sp_ret
       ELSE IF r.status = 200
            THEN /\ sp_pc' = "returned"
                 /\ sp_ret' = JsonOf(r)
                 /\ UNCHANGED sp_slept
            ELSE IF r.status >= 429
                 THEN /\ sp_pc' = "loop"
                      /\ sp_slept' = Append(sp_slept, backoff_base * sp_attempt' + 1)
                      /\ UNCHANGED sp_ret
                 ELSE /\ sp_pc' = "raised"
                      /\ sp_ret' = ErrorMessage(r)
                      /\ UNCHANGED sp_slept

\* One iteration of the loop: one requests.post and what follows it.
PostAttempt(r) ==
    /\ sp_pc = "loop"
    /\ sp_attempt < sp_max_retries
    /\ sp_attempt' = sp_attempt + 1
    /\ sp_log' = Append(sp_log, r)
    /\ UNCHANGED sp_max_retries
    /\ IF r.exc
       THEN IF sp_attempt' >= sp_max_retries
            THEN /\ sp_pc' = "raised"
                 /\ sp_ret' = "RequestException"
                 /\ UNCHANGED sp_slept
            ELSE /\ sp_pc' = "loop"
                 /\ sp_slept' = Append(sp_slept, backoff_base * sp_attempt')
                 /\ UNCHANGED sp_ret
       ELSE IF r.status = 200
            THEN /\ sp_pc' = "returned"
                 /\ sp_ret' = JsonOf(r)
                 /\ UNCHANGED sp_slept
            ELSE IF r.status = 429
                 THEN LET ra == ToInt(IF r.retry_after = PyNone THEN PyInt(1)
                                      ELSE r.retry_after)
                      IN  IF ra.ok
                          THEN /\ sp_pc' = "loop"
                               /\ sp_slept' = Append(sp_slept,
                                                     backoff_base * sp_attempt' + ra.v)
                               /\ UNCHANGED sp_ret
                          ELSE /\ sp_pc' = "raised"
                               /\ sp_ret' = "ValueError"
                               /\ UNCHANGED sp_slept
                 ELSE /\ sp_pc' = "raised"
                      /\ sp_ret' = ErrorMessage(r)
                      /\ UNCHANGED sp_slept

otherThanPost == <<envVars, mainVars, deckVars, lookupVars, filterVars>>

PostRequest ==
    /\ \E r \in Responses : PostAttempt(r)
    /\ UNCHANGED otherThanPost

PostGiveUp ==
    /\ PostExhausted
    /\ UNCHANGED otherThanPost

NextPost == PostRequest \/ PostGiveUp

(***************************************************************************)
(* main, up to the deck id (lines 533-549), and select_deck                *)
(***************************************************************************)
Exit(status, msg) ==
    /\ pc' = "exit"
    /\ exit_status' = status
    /\ out' = msg

Lines == {<<>>, <<" ">>, S_1, S_2, <<"3">>, <<"0">>, <<" ", "2", " ">>, <<"x">>}

\* api_key, then ping_api_key: the key from the preset or the prompt, an
\* empty key and a failed ping end the run with status 1.
MainApiKey ==
    /\ pc = "start"
    /\ \E line \in {<<>>, <<"k">>}, ping \in {"ok", "raise", "error"} :
          LET api_key == IF PRESET.API_KEY # <<>> THEN Strip(PRESET.API_KEY)
                         ELSE Strip(line)
          IN  IF api_key = <<>> THEN Exit(1, "API key required.")
              ELSE IF ping # "ok" THEN Exit(1, "API key validation failed.")
              ELSE /\ pc' = "ask"
                   /\ out' = "API Verified"
                   /\ UNCHANGED exit_status
    /\ UNCHANGED <<envVars, options, vocab_list, detailed, csv, deckVars,
                   lookupVars, filterVars, postVars>>

AnswerLines == {<<>>, S_2, <<"-", "1">>, <<"0">>, <<"x">>}

FlagLines == {<<>>, <<"Y">>, S_no, <<"x">>}

Answers ==
    [mode : {<<>>, S_2}, min_occurrences : {<<>>, S_2, <<"x">>},
     max_days_until_due : AnswerLines, max_card_level : {<<>>, S_2},
     include_banished : FlagLines, include_never_forget : {<<>>, <<"Y">>},
     max_frequency_rank : {<<>>, S_2}, max_results : {<<>>, S_1, S_2}]

\* opts = ask_mode_and_options(PRESET_MODE)
MainAskOptions ==
    /\ pc = "ask"
    /\ \E a \in Answers :
          LET r == ask_mode_and_options(PRESET.MODE, PRESET, a)
          IN  /\ r.ok
              /\ options' = r.options
    /\ pc' = "deck"
    /\ UNCHANGED <<envVars, exit_status, out, vocab_list, detailed, csv,
                   deckVars, lookupVars, filterVars, postVars>>

\* deck_id = PRESET_DECK_ID.strip() if PRESET_DECK_ID else select_deck(...),
\* and the test of deck_id that follows, for a preset that is not empty.
MainPresetDeck ==
    /\ pc = "deck"
    /\ PRESET.DECK_ID # <<>>
    /\ deck_id' = Strip(PRESET.DECK_ID)
    /\ IF deck_id' = <<>> THEN Exit(1, "No deck selected.")
       ELSE /\ pc' = "vocab"
            /\ out' = "Selected Deck ID"
            /\ UNCHANGED exit_status
    /\ UNCHANGED <<envVars, options, vocab_list, detailed, csv, decks,
                   lookupVars, filterVars, postVars>>

\* Whether some deck row carries the preset id: len(d) > 0 and
\* str(d[0]) == str(preset_deck_id).
PresetFound(ds, preset_deck_id) ==
    \E k \in 1..Len(ds) : Len(ds[k]) > 0 /\ ToStr(ds[k][1]) = preset_deck_id

\* select_deck(api_key, preset_deck_id) up to its prompt loop: the request,
\* the shape test, the preset test and the empty test.
SelectDeckFetch(preset_deck_id) ==
    /\ pc = "deck"
    /\ \E sent \in {"returned", "raised"} :
          IF sent = "raised" THEN
              /\ Exit(1, "Failed to fetch decks")
              /\ UNCHANGED deckVars
          ELSE IF server.decks.t # "list" THEN
              /\ Exit(1, "Unexpected decks response.")
              /\ UNCHANGED deckVars
          ELSE IF preset_deck_id # <<>> /\ PresetFound(server.decks.v, preset_deck_id) THEN
              /\ decks' = server.decks.v
              /\ deck_id' = preset_deck_id
              /\ pc' = "vocab"
              /\ out' = "Selected Deck ID"
              /\ UNCHANGED exit_status
          ELSE IF server.decks.v = <<>> THEN
              /\ Exit(1, "No user decks found.")
              /\ decks' = server.decks.v
              /\ UNCHANGED deck_id
          ELSE
              /\ decks' = server.decks.v
              /\ pc' = "select_prompt"
              /\ out' = "Your decks:"
              /\ UNCHANGED <<exit_status, deck_id>>

\* main calls select_deck(api_key): preset_deck_id keeps its default, "".
MainSelectDeck ==
    /\ PRESET.DECK_ID = <<>>
    /\ SelectDeckFetch(<<>>)
    /\ UNCHANGED <<envVars, options, vocab_list, detailed, csv, lookupVars,
                   filterVars, postVars>>

\* One pass of select_deck's while True loop.
SelectDeckPrompt ==
    /\ pc = "select_prompt"
    /\ \E line \in Lines :
          LET choice == Strip(line)
              num == ParseInt(choice)
          IN  IF choice = <<>> THEN
                  /\ out' = "Selection cannot be empty."
                  /\ UNCHANGED <<pc, exit_status, deck_id>>
              ELSE IF ~num.ok THEN
                  /\ out' = "Invalid input. Enter a number."
                  /\ UNCHANGED <<pc, exit_status, deck_id>>
              ELSE IF 1 <= num.v /\ num.v <= Len(decks) THEN
                  /\ deck_id' = ToStr(decks[num.v][1])
                  /\ pc' = "vocab"
                  /\ out' = "Selected Deck ID"
                  /\ UNCHANGED exit_status
              ELSE
                  /\ out' = "Invalid number."
                  /\ UNCHANGED <<pc, exit_status, deck_id>>
    /\ UNCHANGED <<envVars, options, vocab_list, detailed, csv, decks,
                   lookupVars, filterVars, postVars>>

(***************************************************************************)
(* get_deck_vocabulary and the test of vocab_list in main                  *)
(***************************************************************************)
\* combined: entry i of raw_vocab with raw_occ[i], None where one is missing.
Combine(raw_vocab, raw_occ) ==
    [k \in 1..Len(raw_vocab) |->
        [vid |-> IF Len(raw_vocab[k]) > 0 THEN raw_vocab[k][1] ELSE PyNone,
         sid |-> IF Len(raw_vocab[k]) > 1 THEN raw_vocab[k][2] ELSE PyNone,
         occurrences |-> IF k <= Len(raw_occ) THEN raw_occ[k] ELSE PyNone]]

\* The request of get_deck_vocabulary fails: sys.exit(1).  int(deck_id), made
\* before the request, raises for an id that is not a number.
GetDeckVocabularyFailed ==
    /\ pc = "vocab"
    /\ IF ~ParseInt(deck_id).ok THEN Exit(1, "ValueError")
       ELSE Exit(1, "Failed to fetch deck vocabulary")
    /\ UNCHANGED <<envVars, options, vocab_list, detailed, csv, deckVars,
                   lookupVars, filterVars, postVars>>

\* The request succeeds: vocab_list = combined, and main leaves with status
\* 0 when it is empty.
GetDeckVocabulary ==
    /\ pc = "vocab"
    /\ ParseInt(deck_id).ok
    /\ vocab_list' = Combine(server.vocabulary, server.occurences)
    /\ IF vocab_list' = <<>> THEN Exit(0, "No vocabulary in deck.")
       ELSE /\ pc' = "lookup"
            /\ UNCHANGED <<exit_status, out>>
    /\ UNCHANGED <<envVars, options, detailed, csv, deckVars, lookupVars,
                   filterVars, postVars>>

(***************************************************************************)
(* lookup_vocabulary and the test of detailed in main                      *)
(***************************************************************************)
batch_size == 50

Min(a, b) == IF a <= b THEN a ELSE b

\* occ_map[key] = value
DictSet(m, key, value) ==
    [k \in DOMAIN m \cup {key} |-> IF k = key THEN value ELSE m[k]]

\* occ_map.get(key, default)
DictGet(m, key, default) == IF key \in DOMAIN m THEN m[key] ELSE default

Indices(seq) == [k \in 1..Len(seq) |-> k]

Complete(e) == ~(e.vid = PyNone \/ e.sid = PyNone)

\* The first loop of lookup_vocabulary: entries without a vid or a sid are
\* skipped, the others append [vid, sid] and set occ_map[vid], so that
\* occ_map holds for each vid the occurrences of the last entry with it.
BuildLookup(entries) ==
    LET kept == SelectSeq(Indices(entries), LAMBDA k : Complete(entries[k]))
        LastWith(vid) ==
            CHOOSE k \in 1..Len(entries) :
                /\ Complete(entries[k]) /\ entries[k].vid = vid
                /\ \A j \in (k + 1)..Len(entries) :
                      ~(Complete(entries[j]) /\ entries[j].vid = vid)
    IN  [occ_map |-> [vid \in {entries[kept[n]].vid : n \in 1..Len(kept)} |->
                        entries[LastWith(vid)].occurrences],
         lookup_pairs |-> [n \in 1..Len(kept) |->
                             <<entries[kept[n]].vid, entries[kept[n]].sid>>]]

fields == <<"spelling", "reading", "frequency_rank", "meanings", "card_level",
            "card_state">>

\* item: the fields of the row by position (None past its end), the vid of
\* the pair at row_idx of the batch (None past its end; row_idx counts from
\* 0 in the code and from 1 here), and occ_map.get(vid, 0).
Item(row, row_idx, b, om) ==
    LET vid == IF row_idx <= Len(b) THEN b[row_idx][1] ELSE PyNone
        named == [name \in {fields[k] : k \in 1..Len(fields)} |->
                    LET idx == CHOOSE k \in 1..Len(fields) : fields[k] = name
                    IN  IF idx <= Len(row.v) THEN row.v[idx] ELSE PyNone]
    IN  named @@ [vid |-> vid, occurrences |-> DictGet(om, vid, PyInt(0))]

\* The second loop with the pair taken at the count of rows kept so far
\* instead of at row_idx: a null row shifts the pairs of the rows after it.
ParseRowsShifted(rs, b, om) ==
    LET kept == SelectSeq(Indices(rs), LAMBDA k : rs[k] # PyNone)
    IN  [n \in 1..Len(kept) |-> Item(rs[kept[n]], n, b, om)]

\* The loop over the rows of one response: a None row is skipped, every
\* other row appends its item, in the order of the rows.
ParseRows(rs, b, om) ==
    LET kept == SelectSeq(Indices(rs), LAMBDA k : rs[k] # PyNone)
    IN  [n \in 1..Len(kept) |-> Item(rs[kept[n]], kept[n], b, om)]

\* The row the service holds for the pair at position p of the lookup.
Row(kind, p) ==
    LET text == PyStr(NatChars(p))
        full(state) == PyList(<<text, text, PyInt(p), PyList(<<text>>), PyNone, state>>)
    IN  CASE kind = "null" -> PyNone
          [] kind = "short" -> PyList(<<text, text>>)
          [] kind = "suspended" -> full(PyList(<<PyStr(S_suspended)>>))
          [] OTHER -> full(PyNone)

InfoAt(p) == IF p \in DOMAIN server.info THEN server.info[p] ELSE "full"

\* data["vocabulary_info"] for the batch at offset off: one row per pair,
\* and rows_delta rows more (or fewer) than pairs.
VocabularyInfo(off, b) ==
    [k \in 1..(Len(b) + server.rows_delta) |-> Row(InfoAt(off + k), off + k)]

\* The first loop, and the early return when no pair is complete.
LookupStart ==
    /\ pc = "lookup"
    /\ LET built == BuildLookup(vocab_list)
       IN  /\ occ_map' = built.occ_map
           /\ lookup_pairs' = built.lookup_pairs
           /\ IF built.lookup_pairs = <<>>
              THEN /\ detailed' = <<>>
                   /\ Exit(0, "No detailed vocabulary returned.")
              ELSE /\ pc' = "lookup_loop"
                   /\ UNCHANGED <<detailed, exit_status, out>>
    /\ i' = 0
    /\ parsed' = <<>>
    /\ UNCHANGED <<envVars, options, vocab_list, csv, deckVars, batch, rows,
                   filterVars, postVars>>

\* One batch whose request fails, with the rows parsed so far returned to
\* main instead of sys.exit(1).
LookupBatchFailedReturnsParsed ==
    /\ pc = "lookup_loop"
    /\ batch' = SubSeq(lookup_pairs, i + 1, Min(i + batch_size, Len(lookup_pairs)))
    /\ out' = "Lookup vocabulary failed"
    /\ detailed' = parsed
    /\ pc' = "filter"
    /\ UNCHANGED <<envVars, exit_status, options, vocab_list, csv, deckVars,
                   occ_map, lookup_pairs, i, rows, parsed, filterVars, postVars>>

\* One batch whose request fails: sys.exit(1).
LookupBatchFailed ==
    /\ pc = "lookup_loop"
    /\ batch' = SubSeq(lookup_pairs, i + 1, Min(i + batch_size, Len(lookup_pairs)))
    /\ Exit(1, "Lookup vocabulary failed")
    /\ UNCHANGED <<envVars, options, vocab_list, detailed, csv, deckVars,
                   occ_map, lookup_pairs, i, rows, parsed, filterVars, postVars>>

\* One batch whose request succeeds; after the last one parsed is returned,
\* and main leaves with status 0 when it is empty.
LookupBatch ==
    /\ pc = "lookup_loop"
    /\ batch' = SubSeq(lookup_pairs, i + 1, Min(i + batch_size, Len(lookup_pairs)))
    /\ rows' = VocabularyInfo(i, batch')
    /\ parsed' = parsed \o ParseRows(rows', batch', occ_map)
    /\ IF i + batch_size < Len(lookup_pairs)
       THEN /\ i' = i + batch_size
            /\ UNCHANGED <<pc, detailed, exit_status, out>>
       ELSE /\ detailed' = parsed'
            /\ UNCHANGED i
            /\ IF parsed' = <<>> THEN Exit(0, "No detailed vocabulary returned.")
               ELSE /\ pc' = "filter"
                    /\ UNCHANGED <<exit_status, out>>
    /\ UNCHANGED <<envVars, options, vocab_list, csv, deckVars, occ_map,
                   lookup_pairs, filterVars, postVars>>

(***************************************************************************)
(* apply_filters: the loop                                                 *)
(***************************************************************************)
Clock == {1700000000}

\* The cap test with max_results compared against the number of items taken
\* instead of the number kept.
CapReachedCountingEvaluated(kept, taken, opts) ==
    Truthy(opts.max_results) /\ taken >= opts.max_results.v

\* if max_results and len(filtered) >= max_results: break
CapReached(kept, taken, opts) ==
    Truthy(opts.max_results) /\ Len(kept) >= opts.max_results.v

\* The early return for an empty input, and the locals set before the loop.
FilterStart ==
    /\ pc = "filter"
    /\ filtered' = <<>>
    /\ n_eval' = 0
    /\ verdict' = "none"
    /\ state_list' = <<>>
    /\ IF detailed = <<>>
       THEN /\ pc' = "sort"
            /\ UNCHANGED now_ts
       ELSE /\ pc' = "filter_loop"
            /\ now_ts' \in Clock
    /\ UNCHANGED <<envVars, exit_status, out, options, vocab_list, detailed,
                   csv, deckVars, lookupVars, postVars>>

\* One iteration of the for loop: the item is rejected by a continue or
\* appended; the loop ends by the break or with the last item.
FilterStep ==
    /\ pc = "filter_loop"
    /\ LET item == detailed[n_eval + 1]
           v == Verdict(item, options, now_ts)
       IN  /\ verdict' = v
           /\ n_eval' = n_eval + 1
           /\ state_list' = IF v \in {"occurrences", "due", "card_level"}
                            THEN state_list ELSE StateList(item)
           /\ filtered' = IF v = "accept" THEN Append(filtered, item) ELSE filtered
           /\ IF \/ v = "accept" /\ CapReached(filtered', n_eval', options)
                 \/ n_eval' = Len(detailed)
              THEN pc' = "sort"
              ELSE pc' = "filter_loop"
    /\ UNCHANGED <<envVars, exit_status, out, options, vocab_list, detailed,
                   csv, deckVars, lookupVars, now_ts, postVars>>

(***************************************************************************)
(* main: the sort, and export_anki_csv                                     *)
(***************************************************************************)
\* key=lambda x: x.get("occurrences") or 0
SortKey(x) ==
    LET occ == Get(x, "occurrences") IN IF Truthy(occ) THEN occ.v ELSE 0

\* Where item k of seq goes when seq is sorted by key (descending for
\* reverse=True): behind every item whose key sorts ahead of its own and
\* behind the items of equal key that precede it.
SortedPlace(seq, k, reverse) ==
    1 + Cardinality({j \in 1..Len(seq) :
                        \/ reverse /\ SortKey(seq[j]) > SortKey(seq[k])
                        \/ ~reverse /\ SortKey(seq[j]) < SortKey(seq[k])
                        \/ SortKey(seq[j]) = SortKey(seq[k]) /\ j < k})

\* The sort without reverse=True: ascending.
SortAscending(seq) ==
    [n \in 1..Len(seq) |->
        seq[CHOOSE k \in 1..Len(seq) : SortedPlace(seq, k, FALSE) = n]]

\* list.sort(key=..., reverse=True): a stable sort, descending by key.
SortByOccurrences(seq) ==
    [n \in 1..Len(seq) |->
        seq[CHOOSE k \in 1..Len(seq) : SortedPlace(seq, k, TRUE) = n]]

\* filtered.sort(...)
MainSort ==
    /\ pc = "sort"
    /\ filtered' = SortByOccurrences(filtered)
    /\ pc' = "export"
    /\ out' = "Prepared cards for export."
    /\ UNCHANGED <<envVars, exit_status, options, vocab_list, detailed, csv,
                   deckVars, lookupVars, now_ts, n_eval, verdict, state_list,
                   postVars>>

\* "; ".join(meanings)
Join(strs) ==
    LET F[k \in 0..Len(strs)] ==
            IF k = 0 THEN <<>>
            ELSE IF k = 1 THEN strs[k].v
            ELSE F[k - 1] \o <<";", " ">> \o strs[k].v
    IN  F[Len(strs)]

\* The row written for one item.
CsvRow(item) ==
    LET spelling == Get(item, "spelling")
        reading == Get(item, "reading")
        got == Get(item, "meanings")
        meanings == IF Truthy(got) THEN got ELSE PyList(<<>>)
    IN  <<IF Truthy(spelling) THEN ToStr(spelling) ELSE <<>>,
          IF Truthy(reading) THEN ToStr(reading) ELSE <<>>,
          IF meanings.t = "list" THEN Join(meanings.v) ELSE ToStr(meanings)>>

CsvHeader == <<"Expression", "Reading", "Meaning">>

\* export_anki_csv: the header, then one row per item, in order.
ExportRows(vocab_info) ==
    <<CsvHeader>> \o [k \in 1..Len(vocab_info) |-> CsvRow(vocab_info[k])]

\* out_file, export_anki_csv, and the end of main.  open() raises for an
\* empty file name.
MainExport ==
    /\ pc = "export"
    /\ \E line \in {<<>>, <<"f">>} :
          LET out_file == IF PRESET.OUTPUT_FILE # <<>> THEN PRESET.OUTPUT_FILE
                          ELSE IF Strip(line) # <<>> THEN Strip(line)
                          ELSE PRESET.OUTPUT_FILE
          IN  IF out_file = <<>>
              THEN /\ Exit(1, "FileNotFoundError")
                   /\ UNCHANGED csv
              ELSE /\ csv' = [opened |-> TRUE, rows |-> ExportRows(filtered)]
                   /\ Exit(0, "Anki CSV saved")
    /\ UNCHANGED <<envVars, options, vocab_list, detailed, deckVars,
                   lookupVars, filterVars, postVars>>

(***************************************************************************)
(* Initial states                                                          *)
(***************************************************************************)
S_output == <<"a", "n", "k", "i", "_", "i", "m", "p", "o", "r", "t", ".", "c", "s", "v">>

\* The PRESET_* values as the source sets them.
SourcePresets ==
    [API_KEY |-> <<>>, DECK_ID |-> <<>>, MODE |-> <<>>, OUTPUT_FILE |-> S_output,
     MIN_OCCURRENCES |-> PyNone, MAX_DAYS_UNTIL_DUE |-> PyNone,
     MAX_CARD_LEVEL |-> PyNone, INCLUDE_BANISHED |-> PyNone,
     INCLUDE_NEVER_FORGET |-> PyBool(TRUE), MAX_FREQUENCY_RANK |-> PyNone,
     MAX_RESULTS |-> PyNone]

NoServer ==
    [decks |-> PyNone, vocabulary |-> <<>>, occurences |-> <<>>, info |-> <<>>,
     rows_delta |-> 0]

PostIdle ==
    /\ sp_pc = "idle"
    /\ sp_max_retries = 0
    /\ sp_attempt = 0
    /\ sp_log = <<>>
    /\ sp_slept = <<>>
    /\ sp_ret = "None"

DeckIdle == decks = <<>> /\ deck_id = <<>>

LookupIdle ==
    /\ occ_map = <<>>
    /\ lookup_pairs = <<>>
    /\ i = 0
    /\ batch = <<>>
    /\ rows = <<>>
    /\ parsed = <<>>

FilterIdle ==
    /\ now_ts = 0
    /\ n_eval = 0
    /\ verdict = "none"
    /\ state_list = <<>>
    /\ filtered = <<>>

Running ==
    /\ exit_status = -1
    /\ out = ""
    /\ csv = [opened |-> FALSE, rows |-> <<>>]

\* A call of send_post with max_retries up to MaxRetriesArg.
InitPost ==
    /\ \E mr \in 0..MaxRetriesArg : PostInit(mr)
    /\ PRESET = SourcePresets
    /\ server = NoServer
    /\ pc = "send_post"
    /\ options = BasicOptions
    /\ vocab_list = <<>>
    /\ detailed = <<>>
    /\ Running /\ DeckIdle /\ LookupIdle /\ FilterIdle

SpecPost == InitPost /\ [][NextPost]_vars

\* requests.post has a timeout and time.sleep returns: a running call
\* always takes its next step.
SpecPostFair == SpecPost /\ WF_vars(NextPost)

\* Sequences over S of length up to n.
SeqsUpTo(S, n) == UNION {[1..k -> S] : k \in 0..n}

(* lookup_vocabulary called on a listing *)
MaxEntries == 2

Pairs ==
    {<<PyInt(1), PyInt(1)>>, <<PyInt(1), PyInt(2)>>, <<PyInt(2), PyInt(1)>>,
     <<PyInt(2), PyInt(2)>>, <<PyNone, PyInt(1)>>, <<PyInt(1), PyNone>>}

EntrySet ==
    {[vid |-> p[1], sid |-> p[2], occurrences |-> o] :
        p \in Pairs, o \in {PyNone, PyInt(5)}}

\* A long listing: n entries with distinct vocabulary ids.
LongListing(n) ==
    [k \in 1..n |-> [vid |-> PyInt(k), sid |-> PyInt(1), occurrences |-> PyInt(k % 3)]]

LongLengths == {batch_size, batch_size + 1, 2 * batch_size + 20}

\* For a long listing the service knows every pair, or every pair but one.
OneNull(n) ==
    {[k \in 1..n |-> "full"]}
    \cup {[k \in 1..n |-> IF k = z THEN "null" ELSE "full"] : z \in 1..n}

InitLookup ==
    /\ \/ /\ vocab_list \in SeqsUpTo(EntrySet, MaxEntries)
          /\ \E info \in [1..Len(vocab_list) -> {"null", "full", "short"}] :
                server = [NoServer EXCEPT !.info = info]
       \/ /\ vocab_list \in SeqsUpTo(EntrySet, MaxEntries)
          /\ \E d \in {-1, 1} :
                server = [NoServer EXCEPT !.info = [k \in 1..Len(vocab_list) |-> "full"],
                                          !.rows_delta = d]
       \/ /\ \E n \in LongLengths : vocab_list = LongListing(n)
          /\ \E info \in OneNull(Len(vocab_list)) :
                server = [NoServer EXCEPT !.info = info]
    /\ PRESET = SourcePresets
    /\ pc = "lookup"
    /\ options = BasicOptions
    /\ detailed = <<>>
    /\ Running /\ DeckIdle /\ LookupIdle /\ FilterIdle /\ PostIdle

NextLookup == LookupStart \/ LookupBatch \/ LookupBatchFailed

SpecLookup == InitLookup /\ [][NextLookup]_vars


(* apply_filters called on a list of records and the options of
   ask_mode_and_options *)
MaxItems == 5

\* A record as lookup_vocabulary builds it.
Record(vid, occ, level, state, freq) ==
    [spelling |-> PyStr(<<"w">>), reading |-> PyStr(<<"r">>),
     frequency_rank |-> freq, meanings |-> PyList(<<PyStr(<<"m">>)>>),
     card_level |-> level, card_state |-> state, vid |-> vid,
     occurrences |-> occ]

\* The same record with a due_at key.
WithDue(item, due) == item @@ [due_at |-> due]

\* Two records that pass every rule below, one with a suspended card, one
\* with too few occurrences.
CapItems ==
    {Record(PyInt(1), PyInt(5), PyNone, PyNone, PyInt(1)),
     Record(PyInt(2), PyInt(7), PyInt(2), PyList(<<PyStr(<<"n", "e", "w">>)>>), PyInt(2)),
     Record(PyInt(3), PyInt(5), PyNone, PyList(<<PyStr(S_suspended)>>), PyInt(1)),
     Record(PyInt(4), PyInt(1), PyNone, PyNone, PyInt(1))}

CapPresets ==
    {[SourcePresets EXCEPT !.MODE = S_advanced, !.MIN_OCCURRENCES = PyInt(2),
                           !.MAX_CARD_LEVEL = PyInt(2),
                           !.INCLUDE_BANISHED = PyBool(FALSE),
                           !.MAX_FREQUENCY_RANK = PyInt(2), !.MAX_RESULTS = r] :
        r \in {PyNone, PyInt(3)}}

CapAnswers ==
    [mode : {<<>>}, min_occurrences : {<<>>}, max_days_until_due : {<<>>},
     max_card_level : {<<>>}, include_banished : {<<>>},
     include_never_forget : {<<>>}, max_frequency_rank : {<<>>},
     max_results : {<<>>, S_1, S_2}]

DueValues ==
    {PyStr(<<"x">>)}
    \cup {PyInt(c + d) : c \in Clock, d \in {0, SECONDS_PER_DAY, SECONDS_PER_DAY + 1}}

StateValues ==
    {PyNone, PyInt(7), PyStr(<<>>), PyStr(S_suspended), PyStr(S_never_forget),
     PyList(<<PyStr(S_banished)>>), PyList(<<PyStr(S_blacklisted)>>),
     PyList(<<PyStr(S_never_forget)>>), PyList(<<PyStr(<<"n", "e", "w">>)>>)}

FrequencyValues == {PyNone, PyStr(<<"x">>), PyStr(S_2), PyInt(2), PyInt(3)}

RuleItems ==
    LET plain == {Record(PyInt(1), PyInt(5), level, state, freq) :
                    level \in {PyNone, PyInt(3)}, state \in StateValues,
                    freq \in FrequencyValues}
    IN  plain \cup {WithDue(item, due) : item \in plain, due \in DueValues}

RulePresets ==
    {[SourcePresets EXCEPT !.MODE = S_advanced, !.MAX_DAYS_UNTIL_DUE = d] :
        d \in {PyNone, PyInt(-1), PyInt(0), PyInt(1)}}

RuleAnswers ==
    [mode : {<<>>}, min_occurrences : {<<>>}, max_days_until_due : {<<>>, <<"0">>, S_1},
     max_card_level : {<<>>, S_2}, include_banished : {<<>>, <<"Y">>},
     include_never_forget : {<<>>}, max_frequency_rank : {<<>>, S_2},
     max_results : {<<>>}]

InitFilter ==
    /\ \/ /\ detailed \in SeqsUpTo(CapItems, MaxItems)
          /\ \E P \in CapPresets, a \in CapAnswers :
                /\ PRESET = P
                /\ ask_mode_and_options(P.MODE, P, a).ok
                /\ options = ask_mode_and_options(P.MODE, P, a).options
       \/ /\ \E item \in RuleItems : detailed = <<item>>
          /\ \E P \in RulePresets \cup {[Q EXCEPT !.INCLUDE_NEVER_FORGET = PyNone] :
                                          Q \in RulePresets},
                a \in RuleAnswers :
                /\ PRESET = P
                /\ ask_mode_and_options(P.MODE, P, a).ok
                /\ options = ask_mode_and_options(P.MODE, P, a).options
    /\ server = NoServer
    /\ pc = "filter"
    /\ vocab_list = <<>>
    /\ Running /\ DeckIdle /\ LookupIdle /\ FilterIdle /\ PostIdle

NextFilter == FilterStart \/ FilterStep

SpecFilter == InitFilter /\ [][NextFilter]_vars

(* A run of main *)
MaxVocab == 3

MainPreset ==
    [SourcePresets EXCEPT !.API_KEY = <<"k">>, !.MODE = S_basic, !.DECK_ID = S_1]

\* The vocabulary array of the service for a deck of n words.
RawVocabulary(n) == [k \in 1..n |-> <<PyInt(k), PyInt(1)>>]

SmallServer ==
    [NoServer EXCEPT !.vocabulary = RawVocabulary(2),
                     !.occurences = <<PyInt(5), PyInt(1)>>,
                     !.info = <<"full", "suspended">>]

DeckLists ==
    {PyNone, PyList(<<>>), PyList(<< <<PyInt(7)>> >>),
     PyList(<< <<PyInt(7)>>, <<PyInt(1)>> >>)}

\* Decks of up to MaxVocab words with any occurrence counts, cards
\* suspended or not.
ExportRuns ==
    {<<MainPreset,
       [NoServer EXCEPT !.vocabulary = RawVocabulary(n), !.occurences = occ,
                        !.info = info]>> :
        n \in 0..MaxVocab,
        occ \in SeqsUpTo({PyNone, PyInt(1), PyInt(5), PyInt(10)}, MaxVocab),
        info \in SeqsUpTo({"full", "suspended"}, MaxVocab)}

\* Every way to name the deck, the key and the output file.
DeckRuns ==
    {<<[MainPreset EXCEPT !.API_KEY = k, !.DECK_ID = d, !.OUTPUT_FILE = o],
       [SmallServer EXCEPT !.decks = ds, !.info = info]>> :
        k \in {<<>>, <<"k">>},
        d \in {<<>>, S_1, <<"9">>, <<" ">>, <<"x">>, <<" ", "7">>},
        o \in {S_output, <<>>},
        ds \in DeckLists,
        info \in {<<"full", "suspended">>, <<"null", "null">>}}

\* Every way to choose the mode, the due ceiling prompted for or preset.
OptionRuns ==
    {<<[MainPreset EXCEPT !.MODE = m, !.MAX_DAYS_UNTIL_DUE = days], SmallServer>> :
        m \in {<<>>, S_2, S_advanced, <<"z">>},
        days \in {PyNone, PyInt(0), PyInt(3)}}

\* A deck that needs two lookup batches.
LongRuns ==
    {<<MainPreset,
       [NoServer EXCEPT !.vocabulary = RawVocabulary(batch_size + 1),
                        !.occurences = [k \in 1..(batch_size + 1) |-> PyInt(k % 3)],
                        !.info = info]>> :
        info \in {[k \in 1..(batch_size + 1) |-> "full"],
                  [k \in 1..(batch_size + 1) |-> "null"]}}

InitMain ==
    /\ \E run \in ExportRuns \cup DeckRuns \cup OptionRuns \cup LongRuns :
          /\ Len(run[2].occurences) <= Len(run[2].vocabulary)
          /\ Len(run[2].info) = Len(run[2].vocabulary)
          /\ PRESET = run[1]
          /\ server = run[2]
    /\ pc = "start"
    /\ options = BasicOptions
    /\ vocab_list = <<>>
    /\ detailed = <<>>
    /\ Running /\ DeckIdle /\ LookupIdle /\ FilterIdle /\ PostIdle

NextMain ==
    \/ MainApiKey
    \/ MainAskOptions
    \/ MainPresetDeck
    \/ MainSelectDeck
    \/ SelectDeckPrompt
    \/ GetDeckVocabulary
    \/ GetDeckVocabularyFailed
    \/ LookupStart
    \/ LookupBatch
    \/ LookupBatchFailed
    \/ FilterStart
    \/ FilterStep
    \/ MainSort
    \/ MainExport

SpecMain == InitMain /\ [][NextMain]_vars

(***************************************************************************)
(* C9                                                                      *)
(***************************************************************************)
PostDone == sp_pc \in {"returned", "raised"}

Retryable(r) == r.exc \/ r.status = 429

C9_Shape ==
    /\ Len(sp_log) <= sp_max_retries
    /\ \A k \in 1..(Len(sp_log) - 1) : Retryable(sp_log[k])
    /\ sp_pc = "returned" =>
          /\ sp_log # <<>>
          /\ ~sp_log[Len(sp_log)].exc
          /\ sp_log[Len(sp_log)].status = 200
          /\ sp_ret = JsonOf(sp_log[Len(sp_log)])
    /\ (sp_log # <<>> /\ ~Retryable(sp_log[Len(sp_log)])
          /\ sp_log[Len(sp_log)].status # 200) => sp_pc = "raised"

\* C9: every call of send_post ends, returned or raised, after at most
\* max_retries requests; it returns only the body of a 200 response; every
\* request but the last was answered by a network error or a 429; a 403, a
\* 400 or another non-200 status raises at once.
C9_SendPostBounded == []C9_Shape /\ <>PostDone

\* A call that was rate limited, then lost the connection, then got its 200.
C9_Witness ==
    /\ sp_pc = "returned"
    /\ Len(sp_log) = 3
    /\ sp_log[1].status = 429
    /\ sp_log[2].exc

(***************************************************************************)
(* C1, C3                                                                  *)
(***************************************************************************)
\* A response has been parsed: batch, rows and the tail of parsed belong to
\* the same iteration of the batch loop.
BatchParsed ==
    /\ batch # <<>>
    /\ pc \in {"lookup_loop", "filter", "exit"}
    /\ out # "Lookup vocabulary failed"

\* The offset in lookup_pairs of the batch last parsed.
BatchOffset == IF pc = "lookup_loop" THEN i - batch_size ELSE i

\* The positions of the rows of the last response that are not null.
KeptRows == SelectSeq(Indices(rows), LAMBDA k : rows[k] # PyNone)

\* The record built from the n-th row that is not null.
BatchRecord(n) == parsed[Len(parsed) - Len(KeptRows) + n]

DistinctPairs(entries) ==
    \A a, b \in 1..Len(entries) :
        (a # b) => ~(entries[a].vid = entries[b].vid /\ entries[a].sid = entries[b].sid)

\* The entries of the listing that have both ids, in order: pair p of
\* lookup_pairs comes from entry p of these.
CompleteEntries == SelectSeq(vocab_list, LAMBDA e : e.vid # PyNone /\ e.sid # PyNone)

\* C1: when the pairs of the listing are pairwise distinct, every record
\* carries the occurrence count the listing holds for the entry at the
\* record's position in its batch.
C1_OccurrencesExact ==
    (BatchParsed /\ DistinctPairs(vocab_list)) =>
        \A n \in 1..Len(KeptRows) :
            KeptRows[n] <= Len(batch) =>
                BatchRecord(n).occurrences
                    = CompleteEntries[BatchOffset + KeptRows[n]].occurrences

\* C3: the pairs go out in order in batches of 50, only the last one
\* shorter; each row that is not null gives one record, with the row's own
\* fields and the vocabulary id of the pair at the row's position of the
\* batch; a null row gives none.
C3_BatchesAndRows ==
    BatchParsed =>
        /\ BatchOffset % 50 = 0
        /\ Len(batch) = Min(50, Len(lookup_pairs) - BatchOffset)
        /\ \A k \in 1..Len(batch) : batch[k] = lookup_pairs[BatchOffset + k]
        /\ pc # "lookup_loop" => BatchOffset + Len(batch) = Len(lookup_pairs)
        /\ Len(parsed) >= Len(KeptRows)
        /\ Len(KeptRows) = Cardinality({k \in 1..Len(rows) : rows[k] # PyNone})
        /\ \A n \in 1..Len(KeptRows) :
              /\ BatchRecord(n).spelling = rows[KeptRows[n]].v[1]
              /\ KeptRows[n] <= Len(batch) =>
                    BatchRecord(n).vid = batch[KeptRows[n]][1]

\* 120 pairs, all three batches parsed, a null row in the last one with
\* rows after it.
C3_Witness ==
    /\ pc = "filter"
    /\ Len(lookup_pairs) = 120
    /\ Len(batch) = 20
    /\ \E k \in 1..19 : rows[k] = PyNone
    /\ Len(parsed) = 119

(***************************************************************************)
(* C2, C4, C5, C6                                                          *)
(***************************************************************************)
\* The item the last iteration of the loop took.
LastItem == detailed[n_eval]

\* The positions of the input records that pass rules 1-5.
Passing ==
    SelectSeq(Indices(detailed),
              LAMBDA k : Verdict(detailed[k], options, now_ts) = "accept")

\* C2: with max_results = N > 0 apply_filters returns the first N passing
\* records in input order (all of them when fewer pass) and the loop takes
\* no record after the N-th accepted one; with max_results = 0 it returns
\* every passing record.
C2_ResultCap ==
    (pc = "sort" /\ detailed # <<>>) =>
        LET N == options.max_results.v
            kept == IF N > 0 THEN Min(N, Len(Passing)) ELSE Len(Passing)
        IN  /\ filtered = [n \in 1..kept |-> detailed[Passing[n]]]
            /\ n_eval = IF N > 0 /\ Len(Passing) >= N THEN Passing[N]
                        ELSE Len(detailed)

\* Cap 2, three passing records among five: the loop stopped at the fourth
\* record, behind a rejected one, and left the fifth.
C2_Witness ==
    /\ pc = "sort"
    /\ options.max_results = PyInt(2)
    /\ Len(detailed) = 5
    /\ Len(Passing) = 3
    /\ n_eval = 4
    /\ Len(filtered) = 2

\* The last item got as far as rule 5.
ReachedFrequencyRule == n_eval >= 1 /\ verdict \in {"frequency", "accept"}

FrequencyUnreadable(f) ==
    \/ f = PyNone
    \/ f.t = "list"
    \/ f.t = "str" /\ ~ParseInt(f.v).ok

FrequencyValue(f) == IF f.t = "str" THEN ParseInt(f.v).v ELSE f.v

\* C4: with a ceiling configured the frequency rule rejects a record exactly
\* when its rank is absent, unparseable or above the ceiling; without a
\* ceiling it rejects nothing.
C4_FrequencyRule ==
    /\ (n_eval >= 1 /\ options.max_frequency_rank = PyNone) => verdict # "frequency"
    /\ (ReachedFrequencyRule /\ options.max_frequency_rank # PyNone) =>
          LET f == Get(LastItem, "frequency_rank")
          IN  (verdict = "frequency") <=>
                 \/ FrequencyUnreadable(f)
                 \/ FrequencyValue(f) > options.max_frequency_rank.v

\* A record with no rank rejected by the ceiling, and nothing else.
C4_Witness ==
    /\ n_eval = 1
    /\ verdict = "frequency"
    /\ options.max_frequency_rank = PyInt(2)
    /\ Get(LastItem, "frequency_rank") = PyNone

\* The last item got as far as rule 2.
ReachedDueRule == n_eval >= 1 /\ verdict # "occurrences"

\* C5: with max_days_until_due configured, a record without a due timestamp
\* passes the due-date rule, one whose timestamp cannot be parsed is
\* rejected, and one with a timestamp is rejected exactly when it exceeds
\* now + max_days * 86400.
C5_DueRule ==
    (ReachedDueRule /\ options.max_days_until_due # PyNone) =>
        LET due == Get(LastItem, "due_at")
        IN  /\ due = PyNone => verdict # "due"
            /\ (due # PyNone /\ ~ToInt(due).ok) => verdict = "due"
            /\ (due # PyNone /\ ToInt(due).ok) =>
                  ((verdict = "due") <=>
                      ToInt(due).v > now_ts + options.max_days_until_due.v * 86400)

\* The last item got as far as rule 4.
ReachedStateRule == n_eval >= 1 /\ verdict \in {"state", "frequency", "accept"}

Tags == {state_list[k] : k \in 1..Len(state_list)}

StateRuleRejects ==
    (verdict = "state") <=>
        \/ /\ Tags \cap {S_suspended, S_blacklisted, S_banished} # {}
           /\ options.include_banished = PyBool(FALSE)
        \/ /\ S_never_forget \in Tags
           /\ options.include_never_forget = PyBool(FALSE)

\* C6 as stated: the state rule rejects exactly on the excluded tags, and
\* every card_state that is present and not a list gives the one-element
\* tag list holding it.
C6_AnyValueIsOneTag ==
    ReachedStateRule =>
        /\ StateRuleRejects
        /\ Get(LastItem, "card_state").t \notin {"list", "none"} =>
              state_list = <<ToStr(Get(LastItem, "card_state"))>>

\* C6, amended: the state rule rejects exactly on the excluded tags; a
\* card_state that is a non-empty string gives the one-element tag list
\* holding it, and any other value that is not a list (None, the empty
\* string, a number) gives no tag.
C6_StateRule ==
    ReachedStateRule =>
        LET state == Get(LastItem, "card_state")
        IN  /\ StateRuleRejects
            /\ (state.t = "str" /\ state.v # <<>>) => state_list = <<state.v>>
            /\ (state.t # "list" /\ ~(state.t = "str" /\ state.v # <<>>)) =>
                  state_list = <<>>

\* A record whose card_state is the string "suspended", rejected by the
\* state rule.
C6_Witness ==
    /\ n_eval = 1
    /\ verdict = "state"
    /\ Get(LastItem, "card_state") = PyStr(S_suspended)
    /\ options.include_banished = PyBool(FALSE)

(***************************************************************************)
(* C7, C8, C10                                                             *)
(***************************************************************************)
\* The occurrence count of a record, a missing count read as 0.
OccurrenceCount(x) ==
    IF Get(x, "occurrences") = PyNone THEN 0 ELSE Get(x, "occurrences").v

Counts(seq) == {OccurrenceCount(seq[k]) : k \in 1..Len(seq)}

WithCount(seq, c) == SelectSeq(seq, LAMBDA x : OccurrenceCount(x) = c)

Descending(seq) ==
    \A m \in 1..(Len(seq) - 1) : OccurrenceCount(seq[m]) >= OccurrenceCount(seq[m + 1])

\* after holds the records of before by count descending, the records of
\* one count in the order they had in before.
OrderedByCount(before, after) ==
    /\ Len(after) = Len(before)
    /\ Descending(after)
    /\ \A c \in Counts(before) \cup Counts(after) :
          WithCount(after, c) = WithCount(before, c)

\* C7: the step after filtering orders the records by occurrence count
\* descending (missing count = 0) and keeps the filter order among equal
\* counts; the records are exported in that order, and the file holds the
\* header and then exactly one row per record, in order.
C7_SortThenExport ==
    [][/\ pc = "sort" => OrderedByCount(filtered, filtered')
       /\ pc = "export" => Descending(filtered) /\ filtered' = filtered
       /\ ~csv.opened /\ csv'.opened =>
            /\ pc = "export"
            /\ Len(csv'.rows) = Len(filtered) + 1
            /\ csv'.rows[1] = <<"Expression", "Reading", "Meaning">>
            /\ \A k \in 1..Len(filtered) :
                  csv'.rows[k + 1][1] = Get(filtered[k], "spelling").v]_vars

\* Three records with counts 10, 1, 5, all kept: exported in the order
\* 10, 5, 1, four lines.
C7_Witness ==
    /\ pc = "exit"
    /\ csv.opened
    /\ [k \in 1..Len(vocab_list) |-> vocab_list[k].occurrences]
          = <<PyInt(10), PyInt(1), PyInt(5)>>
    /\ [k \in 1..Len(filtered) |-> OccurrenceCount(filtered[k])] = <<10, 5, 1>>
    /\ Len(csv.rows) = 4
    /\ csv.rows[2][1] = <<"1">> /\ csv.rows[3][1] = <<"3">> /\ csv.rows[4][1] = <<"2">>

\* The offset of the last batch of the lookup.
LastBatchOffset == batch_size * ((Len(lookup_pairs) - 1) \div batch_size)

\* C8: once the vocabulary listing request or a lookup batch request has
\* failed the run has ended with status 1 and the output file is not opened,
\* however many batches succeeded before; the file is opened only when every
\* batch, the last one included, has succeeded and been parsed.
C8_NoPartialOutput ==
    /\ out \in {"Failed to fetch deck vocabulary", "Lookup vocabulary failed"} =>
          pc = "exit" /\ exit_status = 1 /\ ~csv.opened
    /\ csv.opened =>
          /\ lookup_pairs # <<>>
          /\ i = LastBatchOffset
          /\ batch = SubSeq(lookup_pairs, i + 1, Len(lookup_pairs))
          /\ Len(rows) = Len(batch)
          /\ detailed = parsed
          /\ exit_status = 0

\* The first batch of a two-batch lookup has been parsed and the second
\* fails.
C8_Witness ==
    /\ out = "Lookup vocabulary failed"
    /\ Len(lookup_pairs) = batch_size + 1
    /\ i = batch_size
    /\ Len(parsed) = batch_size
    /\ pc = "exit" /\ exit_status = 1 /\ ~csv.opened

\* The ids of the candidate decks of the deck listing.
CandidateIds ==
    IF server.decks.t # "list" THEN {}
    ELSE {ToStr(server.decks.v[k][1]) :
            k \in {j \in 1..Len(server.decks.v) : Len(server.decks.v[j]) > 0}}

\* C10 as stated: the deck id a run goes on with is the id of one of the
\* candidate decks of the deck listing (here for listings that hold
\* candidates).
C10_DeckIdIsCandidate ==
    pc = "vocab" /\ CandidateIds # {} => deck_id \in CandidateIds

(***************************************************************************)
(* C11                                                                     *)
(***************************************************************************)
\* The options of the run with max_days_until_due unset.
DueUnset == [options EXCEPT !.max_days_until_due = PyNone]

\* The positions of the looked-up records that pass the rules under DueUnset.
PassingDueUnset ==
    SelectSeq(Indices(detailed),
              LAMBDA k : Verdict(detailed[k], DueUnset, now_ts) = "accept")

\* What apply_filters returns for the looked-up records under DueUnset.
FilteredDueUnset ==
    LET N == options.max_results
        kept == IF Truthy(N) THEN Min(N.v, Len(PassingDueUnset))
                ELSE Len(PassingDueUnset)
    IN  [n \in 1..kept |-> detailed[PassingDueUnset[n]]]

\* C11: in a run of main no record built by lookup_vocabulary carries a due
\* timestamp, so with a max_days_until_due >= 0 configured the due rule
\* rejects no record and the output of apply_filters is the output of the
\* same run with max_days_until_due unset.
C11_DueRuleIdle ==
    /\ \A k \in 1..Len(parsed) : "due_at" \notin DOMAIN parsed[k]
    /\ \A k \in 1..Len(detailed) : "due_at" \notin DOMAIN detailed[k]
    /\ (options.max_days_until_due # PyNone /\ options.max_days_until_due.v >= 0) =>
          /\ verdict # "due"
          /\ pc = "sort" => filtered = FilteredDueUnset

\* A ceiling of 0 days is configured, two records were looked up, and
\* filtering has kept one and rejected the other by another rule.
C11_Witness ==
    /\ pc = "sort"
    /\ options.max_days_until_due = PyInt(0)
    /\ Len(detailed) = 2
    /\ Len(filtered) = 1
    /\ verdict = "state"

====
